---- MODULE Spec2Model ----
(***************************************************************************)
(* Model of src/download_models.py: the file lister (get_file_list), the   *)
(* resumable fetcher (download_file) and the orchestrator                  *)
(* (download_models, __main__).                                             *)
(*                                                                         *)
(* File contents are sequences of chunks: one element stands for one       *)
(* chunk of response.iter_content (8192 bytes).  The remote content of a   *)
(* file is <<1, 2, ..., RemoteSize>>, so a chunk's value is its position   *)
(* in the remote file and any misplaced chunk on disk is visible.          *)
(***************************************************************************)
EXTENDS Integers, Sequences, FiniteSets, TLC

\* ---------------------------------------------------------------- bounds
\* Number of chunks of the large remote files (the weights); every other
\* remote file is a single chunk.
RemoteSize == 2
\* Calls (of download_file, or the listing request) of one behaviour that
\* the environment disturbs: the network fails during the call (exception,
\* error status, broken or truncated stream), any number of times, or the
\* operator interrupts it.
MaxDisturbed == 1
\* Largest max_retries a direct caller of download_file passes.
MaxRetriesArg == 3
\* Process invocations (python download_models.py) in one behaviour.
MaxRuns == 2
\* Entries of the remote listing's Data array.
MaxListItems == 4

\* ------------------------------------------------------ program constants
REQUIRED_FILES ==
    << "config.json", "configuration.json", "preprocessor_config.json",
       "tokenizer_config.json", "tokenizer.json", "special_tokens_map.json",
       "vocab.json", "merges.txt", "model.safetensors", "pytorch_model.bin" >>

\* download_file(url, destination, max_retries=3)
DefaultMaxRetries == 3

\* Names the remote listing may carry in a Path field.
RemoteNames == {"a.json", "b.bin"}

Range(s) == {s[i] : i \in DOMAIN s}

Names == Range(REQUIRED_FILES) \cup RemoteNames

\* ----------------------------------------------------------- file system
Absent == [exists |-> FALSE, data |-> << >>]

File(d) == [exists |-> TRUE, data |-> d]

\* destination.stat().st_size
StSize(f) == Len(f.data)

\* The files the server holds in more than one chunk.
LargeFiles == {"model.safetensors", "b.bin"}

\* The number of chunks of remote file n.
SizeOf(n) == IF n \in LargeFiles THEN RemoteSize ELSE 1

\* The remote content of file n.
Content(n) == [i \in 1..SizeOf(n) |-> i]

IsPrefix(s, t) == Len(s) <= Len(t) /\ SubSeq(t, 1, Len(s)) = s

\* ------------------------------------------------------------ the server
NoRange == -1

NoResponse == [status |-> 0, cl |-> 0, body |-> << >>]

\* What a server that honours Range sends for offset o.
Ranged(n, o, hasCL) ==
    IF o < SizeOf(n)
    THEN [status |-> 206,
          cl |-> IF hasCL THEN SizeOf(n) - o ELSE 0,
          body |-> SubSeq(Content(n), o + 1, SizeOf(n))]
    ELSE [status |-> 416, cl |-> 0, body |-> << >>]

\* The full body, sent to a plain GET or by a server that ignores Range.
Full(n, hasCL) ==
    [status |-> 200, cl |-> IF hasCL THEN SizeOf(n) ELSE 0, body |-> Content(n)]

\* An error status: the request is answered, but not with the file.
ErrorReply == [status |-> 500, cl |-> 0, body |-> << >>]

\* Replies of a working server to a GET of file n whose Range offset is
\* range: it honours the range or ignores it, and declares a content-length
\* or sends none.
Replies(n, range) ==
    {Full(n, h) : h \in BOOLEAN}
      \cup (IF range = NoRange THEN {} ELSE {Ranged(n, range, h) : h \in BOOLEAN})

\* --------------------------------------------------------- get_file_list
\* Entries of Data: an object with a Path, an object without one, and a
\* value on which  'Path' in item  or  item['Path']  raises.
PathItem(n) == [kind |-> "path", path |-> n]

NoPathItem == [kind |-> "nopath", path |-> ""]

BadItem == [kind |-> "bad", path |-> ""]

Items == {PathItem(n) : n \in RemoteNames} \cup {NoPathItem, BadItem}

DataLists(items, max) == UNION {[1..n -> items] : n \in 0..max}

\* Outcomes of requests.get(MODELSCOPE_API) and response.json():
\*   neterr   requests.get raises
\*   status   a status other than 200
\*   nojson   response.json() raises
\*   nodata   the body has no Data key
\*   notlist  Data is not a list
\*   list     Data is a list
ListingReplies ==
    {[kind |-> k, data |-> << >>] :
        k \in {"neterr", "status", "nojson", "nodata", "notlist"}}
      \cup {[kind |-> "list", data |-> d] : d \in DataLists(Items, MaxListItems)}

\* The outcomes a run of the script is explored with: a failed request (the
\* default list), an empty listing, the two files of a listing, and one
\* file listed twice beside an entry without a Path.
RunListings ==
    {[kind |-> "neterr", data |-> << >>],
     [kind |-> "list", data |-> << >>],
     [kind |-> "list", data |-> << PathItem("a.json"), PathItem("b.bin") >>],
     [kind |-> "list",
      data |-> << PathItem("a.json"), NoPathItem, PathItem("a.json") >>]}

NoListing == [kind |-> "none", data |-> << >>]

RECURSIVE PathsOf(_)
PathsOf(d) ==
    IF d = << >> THEN << >>
    ELSE IF Head(d).kind = "path" THEN << Head(d).path >> \o PathsOf(Tail(d))
    ELSE PathsOf(Tail(d))

\* Mutant: the paths read before the raising entry are kept and the default
\* names added to them.
ListResult_mixed(reply) ==
    IF reply.kind = "list"
    THEN IF \E i \in DOMAIN reply.data : reply.data[i].kind = "bad"
         THEN PathsOf(reply.data) \o REQUIRED_FILES
         ELSE PathsOf(reply.data)
    ELSE REQUIRED_FILES

\* Mutant: a body that is not JSON yields no file at all.
ListResult_nojson(reply) ==
    IF reply.kind = "list"
    THEN IF \E i \in DOMAIN reply.data : reply.data[i].kind = "bad"
         THEN REQUIRED_FILES
         ELSE PathsOf(reply.data)
    ELSE IF reply.kind = "nojson" THEN << >> ELSE REQUIRED_FILES

\* The value get_file_list returns for a listing outcome.
ListResult(reply) ==
    IF reply.kind = "list"
    THEN IF \E i \in DOMAIN reply.data : reply.data[i].kind = "bad"
         THEN REQUIRED_FILES
         ELSE PathsOf(reply.data)
    ELSE REQUIRED_FILES

\* --------------------------------------------------------- download_file
\* Mutant: only 416 makes the fetcher fall back.
NeedsFallback_416(status, ip) == status = 416

\* line 80
NeedsFallback(status, ip) == status = 416 \/ (status = 200 /\ ip > 0)

\* Mutant: the status is not checked.
StatusOk_any(status) == TRUE

\* line 84
StatusOk(status) == status \in {200, 206}

\* line 87
TotalSize(cl, ip) == cl + ip

\* line 87: a response that is used or fallen back from carries no
\* content-length header, and headers.get('content-length', 0) is 0.
Undeclared(r) == r.status \in {200, 206} /\ r.cl = 0

\* line 89
Mode(ip, status) == IF ip > 0 /\ status = 206 THEN "ab" ELSE "wb"

\* line 91: open(destination, mode)
Open(f, m) == IF m = "ab" THEN File(f.data) ELSE File(<< >>)

\* line 101
SizeMismatch(total, size) == total > 0 /\ size # total

\* Mutant: the call gives up one attempt early.
RetriesRemain_early(a, mr) == a < mr - 2

\* line 108
RetriesRemain(a, mr) == a < mr - 1

\* Mutant: a linear backoff.
WaitTime_linear(a) == 2 * a

\* line 109
WaitTime(a) == 2 ^ a

\* ------------------------------------------------------- download_models
\* line 146
Exists(f) == f.exists

\* Mutant: the result of download_file is not tested.
Succeeded_any(r) == TRUE

\* line 152: if download_file(download_url, destination)
Succeeded(r) == r = "true"

\* Mutant: the loop is left at the first failed file.
LoopAdvance_break(i, n, ok) == IF ok THEN i + 1 ELSE n + 1

\* Mutant: the loop passes over the entry after the current one.
LoopAdvance_skip(i, n, ok) == i + 2

\* line 139: the for loop takes the next entry of the n, whatever the
\* result ok of entry i.
LoopAdvance(i, n, ok) == i + 1

\* Mutant: the run always reports success.
Success_always(failed) == TRUE

\* lines 162-172
Success(failed) == failed = << >>

\* Mutant: the process always exits with 0.
ExitCode_zero(success) == 0

\* line 178
ExitCode(success) == IF success THEN 0 ELSE 1

VARIABLES
    pc,             \* position of the process
    run,            \* number of the process invocation
    disturbed_calls,    \* calls the environment has disturbed so far
    disturbed,          \* whether it has disturbed the current call
    disk,           \* ./models: name -> file
    listing,        \* outcome of the listing request of this run
    file_list, idx, success_count, failed_files,
    outcome,        \* how each processed entry of file_list was resolved
    downloads,      \* download_file calls of this run
    ret,            \* return value of download_models: "none", "true", "false"
    exit_code,      \* -1 while the process runs
    interrupted_at, \* where KeyboardInterrupt struck this process, or "none"
    prev_list, prev_ret,    \* file_list and ret of the previous run
    caller,         \* "models" or "direct"
    dest, max_retries, initial_pos, resume_header, attempt,
    response, total_size, mode,
    remaining,      \* chunks of the response body not yet iterated
    slept,          \* the time.sleep calls of this download_file call
    dl_ret,         \* return value of download_file: "none", "true", "false"
    reqs,           \* the GETs of the current attempt: <<[range, status]>>
    pos0,           \* initial_pos at the start of the current attempt
    tried,          \* the attempts of this call: "started", "failed", "ok"
    file0,          \* the destination at the start of the current attempt
    nolen,          \* a 200 or 206 of this call carried no content-length
    disk0           \* the destination when download_file was called

orch == << run, listing, file_list, idx, success_count, failed_files,
           outcome, downloads, ret, exit_code, interrupted_at, prev_list,
           prev_ret, caller >>

call == << dest, max_retries, disk0 >>

net == << disturbed_calls, disturbed >>

vars == << pc, net, disk, orch, call, initial_pos, resume_header, attempt,
           response, total_size, mode, remaining, slept, dl_ret,
                    reqs, pos0, tried, file0, nolen >>

\* -------------------------------------------------------------- Init
NoCall ==
    /\ dest = "config.json"
    /\ max_retries = DefaultMaxRetries
    /\ initial_pos = 0
    /\ resume_header = NoRange
    /\ attempt = 0
    /\ response = NoResponse
    /\ total_size = 0
    /\ mode = "wb"
    /\ remaining = << >>
    /\ slept = << >>
    /\ dl_ret = "none"
    /\ reqs = << >>
    /\ pos0 = 0
    /\ tried = << >>
    /\ file0 = Absent
    /\ nolen = FALSE
    /\ disk0 = Absent

NoRun ==
    /\ listing = NoListing
    /\ file_list = << >>
    /\ idx = 1
    /\ success_count = 0
    /\ failed_files = << >>
    /\ outcome = << >>
    /\ downloads = 0
    /\ ret = "none"
    /\ exit_code = -1
    /\ interrupted_at = "none"

\* The first invocation of the script, in a directory without ./models.
Init ==
    /\ pc = "start"
    /\ run = 1
    /\ disturbed_calls = 0
    /\ disturbed = FALSE
    /\ disk = [n \in Names |-> Absent]
    /\ NoRun
    /\ prev_list = << >>
    /\ prev_ret = "none"
    /\ caller = "models"
    /\ NoCall

\* The file a direct caller of download_file fetches.
FetchedFile == "model.safetensors"

\* Destinations a direct caller of download_file may find: none, a prefix
\* of the remote content (an earlier partial download, or the whole file),
\* or other content of any length up to one chunk more than the remote file.
InitialFiles ==
    {Absent}
      \cup {File(SubSeq(Content(FetchedFile), 1, n)) : n \in 0..RemoteSize}
      \cup {File([i \in 1..n |-> 0]) : n \in 1..(RemoteSize + 1)}

\* A direct call download_file(url, destination, max_retries).
FetchInit ==
    /\ pc = "entry"
    /\ run = 1
    /\ \E f \in InitialFiles : disk = [n \in Names |-> IF n = FetchedFile THEN f ELSE Absent]
    /\ NoRun
    /\ prev_list = << >>
    /\ prev_ret = "none"
    /\ caller = "direct"
    /\ dest = FetchedFile
    /\ max_retries \in 0..MaxRetriesArg
    /\ disturbed_calls = 0
    /\ disturbed = FALSE
    /\ initial_pos = 0
    /\ resume_header = NoRange
    /\ attempt = 0
    /\ response = NoResponse
    /\ total_size = 0
    /\ mode = "wb"
    /\ remaining = << >>
    /\ slept = << >>
    /\ dl_ret = "none"
    /\ reqs = << >>
    /\ pos0 = 0
    /\ tried = << >>
    /\ file0 = Absent
    /\ nolen = FALSE
    /\ disk0 = Absent

\* ------------------------------------------------- download_file, steps
\* The environment disturbs the current call.
Disturb ==
    /\ disturbed \/ disturbed_calls < MaxDisturbed
    /\ disturbed' = TRUE
    /\ disturbed_calls' = IF disturbed THEN disturbed_calls ELSE disturbed_calls + 1

\* lines 60-72: the resume offset is measured once, before the loop.
DownloadFileEntry ==
    /\ pc = "entry"
    /\ initial_pos' = IF disk[dest].exists THEN StSize(disk[dest]) ELSE 0
    /\ resume_header' = IF disk[dest].exists THEN StSize(disk[dest]) ELSE NoRange
    /\ attempt' = 0
    /\ slept' = << >>
    /\ dl_ret' = "none"
    /\ disk0' = disk[dest]
    /\ tried' = << >>
    /\ pc' = "attempt"
    /\ UNCHANGED << net, disk, orch, dest, max_retries, response,
                    total_size, mode, remaining, reqs, pos0, file0, nolen >>

\* line 74: for attempt in range(max_retries); line 116 when the range is
\* exhausted without the body having returned.
AttemptStart ==
    /\ pc = "attempt"
    /\ IF attempt < max_retries
       THEN /\ pc' = "request"
            /\ reqs' = << >>
            /\ pos0' = initial_pos
            /\ tried' = Append(tried, "started")
            /\ file0' = disk[dest]
            /\ UNCHANGED << dl_ret, nolen >>
       ELSE /\ pc' = "returned"
            /\ dl_ret' = "false"
            /\ UNCHANGED << reqs, pos0, tried, file0, nolen >>
    /\ UNCHANGED << net, disk, orch, call, initial_pos, resume_header,
                    attempt, response, total_size, mode, remaining, slept >>

\* lines 84-91 for response r and offset ip: the status check, total_size,
\* the mode and open(destination, mode).
Handle(r, ip) ==
    IF StatusOk(r.status)
    THEN /\ total_size' = TotalSize(r.cl, ip)
         /\ mode' = Mode(ip, r.status)
         /\ disk' = [disk EXCEPT ![dest] = Open(@, Mode(ip, r.status))]
         /\ remaining' = r.body
         /\ pc' = "stream"
    ELSE /\ pc' = "except"
         /\ UNCHANGED << total_size, mode, disk, remaining >>

\* line 76: requests.get raises (timeout, connection error).
RequestFails ==
    /\ pc = "request"
    /\ Disturb
    /\ reqs' = Append(reqs, [range |-> resume_header, status |-> 0])
    /\ pc' = "except"
    /\ UNCHANGED << disk, orch, call, initial_pos, resume_header, attempt,
                    response, total_size, mode, remaining, slept,
                    dl_ret, pos0, tried, file0, nolen >>

\* lines 76-91: the GET with the resume header is answered.
RequestReplied ==
    /\ pc = "request"
    /\ \E r \in Replies(dest, resume_header) \cup {ErrorReply} :
         /\ IF r = ErrorReply THEN Disturb ELSE UNCHANGED net
         /\ response' = r
         /\ nolen' = (nolen \/ Undeclared(r))
         /\ reqs' = Append(reqs, [range |-> resume_header, status |-> r.status])
         /\ IF NeedsFallback(r.status, initial_pos)
            THEN /\ initial_pos' = 0
                 /\ pc' = "refetch"
                 /\ UNCHANGED << total_size, mode, disk, remaining >>
            ELSE /\ Handle(r, initial_pos)
                 /\ UNCHANGED initial_pos
    /\ UNCHANGED << orch, call, resume_header, attempt, slept,
                    dl_ret, pos0, tried, file0 >>

\* line 82: the plain GET raises.
RefetchFails ==
    /\ pc = "refetch"
    /\ Disturb
    /\ reqs' = Append(reqs, [range |-> NoRange, status |-> 0])
    /\ pc' = "except"
    /\ UNCHANGED << disk, orch, call, initial_pos, resume_header, attempt,
                    response, total_size, mode, remaining, slept,
                    dl_ret, pos0, tried, file0, nolen >>

\* lines 82-91: the plain GET is answered.
RefetchReplied ==
    /\ pc = "refetch"
    /\ \E r \in Replies(dest, NoRange) \cup {ErrorReply} :
         /\ IF r = ErrorReply THEN Disturb ELSE UNCHANGED net
         /\ response' = r
         /\ nolen' = (nolen \/ Undeclared(r))
         /\ reqs' = Append(reqs, [range |-> NoRange, status |-> r.status])
         /\ Handle(r, initial_pos)
    /\ UNCHANGED << orch, call, initial_pos, resume_header, attempt, slept,
                    dl_ret, pos0, tried, file0 >>

\* lines 101-104 once the with block is left.
Verify ==
    IF SizeMismatch(total_size, StSize(disk[dest]))
    THEN pc' = "except" /\ UNCHANGED << dl_ret, tried >>
    ELSE /\ pc' = "returned"
         /\ dl_ret' = "true"
         /\ tried' = [tried EXCEPT ![Len(tried)] = "ok"]

\* lines 95-98: one chunk is written.
StreamChunk ==
    /\ pc = "stream"
    /\ remaining # << >>
    /\ disk' = [disk EXCEPT ![dest] = File(Append(@.data, Head(remaining)))]
    /\ remaining' = Tail(remaining)
    /\ UNCHANGED << pc, net, orch, call, initial_pos, resume_header,
                    attempt, response, total_size, mode, slept, dl_ret,
                    reqs, pos0, tried, file0, nolen >>

\* line 95: iter_content raises before the body is complete.
StreamBreak ==
    /\ pc = "stream"
    /\ remaining # << >>
    /\ Disturb
    /\ pc' = "except"
    /\ UNCHANGED << disk, orch, call, initial_pos, resume_header, attempt,
                    response, total_size, mode, remaining, slept, dl_ret,
                    reqs, pos0, tried, file0, nolen >>

\* lines 95-104: the body has been iterated to its end.
StreamEnd ==
    /\ pc = "stream"
    /\ remaining = << >>
    /\ Verify
    /\ UNCHANGED << net, disk, orch, call, initial_pos, resume_header,
                    attempt, response, total_size, mode, remaining, slept,
                    reqs, pos0, file0, nolen >>

\* lines 95-104: the connection closes early and iter_content ends without
\* raising, the body being shorter than the server declared.
StreamTruncated ==
    /\ pc = "stream"
    /\ remaining # << >>
    /\ Disturb
    /\ Verify
    /\ UNCHANGED << disk, orch, call, initial_pos, resume_header, attempt,
                    response, total_size, mode, remaining, slept, reqs, pos0,
                    file0, nolen >>

\* lines 106-114: the except clause.
ExceptHandler ==
    /\ pc = "except"
    /\ tried' = [tried EXCEPT ![Len(tried)] = "failed"]
    /\ IF RetriesRemain(attempt, max_retries)
       THEN /\ slept' = Append(slept, WaitTime(attempt))
            /\ pc' = "sleeping"
            /\ UNCHANGED dl_ret
       ELSE /\ dl_ret' = "false"
            /\ pc' = "returned"
            /\ UNCHANGED slept
    /\ UNCHANGED << net, disk, orch, call, initial_pos, resume_header,
                    attempt, response, total_size, mode, remaining, reqs, pos0,
                    file0, nolen >>

\* line 111 returns; the for loop takes the next attempt.
SleepDone ==
    /\ pc = "sleeping"
    /\ attempt' = attempt + 1
    /\ pc' = "attempt"
    /\ UNCHANGED << net, disk, orch, call, initial_pos, resume_header,
                    response, total_size, mode, remaining, slept, dl_ret,
                    reqs, pos0, tried, file0, nolen >>

\* The steps of download_file but those of the fallback GET.
DownloadFile ==
    \/ DownloadFileEntry
    \/ AttemptStart
    \/ RequestFails
    \/ RequestReplied
    \/ StreamChunk
    \/ StreamBreak
    \/ StreamEnd
    \/ StreamTruncated
    \/ ExceptHandler
    \/ SleepDone

\* line 82
Fallback ==
    \/ RefetchFails
    \/ RefetchReplied

FetchNext == DownloadFile \/ Fallback

FetchSpec == FetchInit /\ [][FetchNext]_vars

\* requests.get and iter_content run under timeout=30 and time.sleep
\* returns: a call that can take a step takes one.
FetchLive == FetchSpec /\ WF_vars(FetchNext)

\* ----------------------------------------------- download_models, steps
Bool(b) == IF b THEN "true" ELSE "false"

\* The locals of download_file once no call is active.
ResetCall ==
    /\ dest' = "config.json"
    /\ max_retries' = DefaultMaxRetries
    /\ initial_pos' = 0
    /\ resume_header' = NoRange
    /\ attempt' = 0
    /\ response' = NoResponse
    /\ total_size' = 0
    /\ mode' = "wb"
    /\ remaining' = << >>
    /\ slept' = << >>
    /\ dl_ret' = "none"
    /\ reqs' = << >>
    /\ pos0' = 0
    /\ tried' = << >>
    /\ file0' = Absent
    /\ nolen' = FALSE
    /\ disk0' = Absent

\* lines 132-137: get_file_list() returns, its request having had one of
\* the outcomes replies.
CallGetFileList(replies) ==
    /\ pc = "start"
    /\ \E reply \in replies :
         /\ listing' = reply
         /\ file_list' = ListResult(reply)
    /\ idx' = 1
    /\ success_count' = 0
    /\ failed_files' = << >>
    /\ pc' = "loop"
    /\ UNCHANGED << run, net, disk, outcome, downloads, ret, exit_code,
                    interrupted_at, prev_list, prev_ret, caller, call,
                    initial_pos,
                    resume_header, attempt, response, total_size, mode,
                    remaining, slept, dl_ret, reqs, pos0, tried, file0, nolen >>

GetFileList == CallGetFileList(RunListings)

\* get_file_list called on its own, for every outcome of its request.
ListerReturns == CallGetFileList(ListingReplies)

\* lines 139-149: the destination exists and the entry is skipped.
LoopSkip ==
    /\ pc = "loop"
    /\ idx <= Len(file_list)
    /\ Exists(disk[file_list[idx]])
    /\ success_count' = success_count + 1
    /\ outcome' = Append(outcome, "present")
    /\ idx' = LoopAdvance(idx, Len(file_list), TRUE)
    /\ UNCHANGED << pc, run, net, disk, listing, file_list, failed_files,
                    downloads, ret, exit_code, interrupted_at, prev_list,
                    prev_ret, caller,
                    call, initial_pos, resume_header, attempt, response,
                    total_size, mode, remaining, slept, dl_ret,
                    reqs, pos0, tried, file0, nolen >>

\* lines 139-152: the destination is missing and download_file is called.
LoopDownload ==
    /\ pc = "loop"
    /\ idx <= Len(file_list)
    /\ ~Exists(disk[file_list[idx]])
    /\ dest' = file_list[idx]
    /\ max_retries' = DefaultMaxRetries
    /\ downloads' = downloads + 1
    /\ pc' = "entry"
    /\ UNCHANGED << run, net, disk, listing, file_list, idx, success_count,
                    failed_files, outcome, ret, exit_code, interrupted_at,
                    prev_list, prev_ret, caller, disk0, initial_pos,
                    resume_header, attempt,
                    response, total_size, mode, remaining, slept, dl_ret,
                    reqs, pos0, tried, file0, nolen >>

\* lines 152-156: download_file has returned; its locals are gone.
DownloadReturned ==
    /\ pc = "returned"
    /\ caller = "models"
    /\ outcome' = Append(outcome, IF dl_ret = "true" THEN "fetched" ELSE "failed")
    /\ IF Succeeded(dl_ret)
       THEN /\ success_count' = success_count + 1
            /\ UNCHANGED failed_files
       ELSE /\ failed_files' = Append(failed_files, file_list[idx])
            /\ UNCHANGED success_count
    /\ idx' = LoopAdvance(idx, Len(file_list), dl_ret = "true")
    /\ pc' = "loop"
    /\ ResetCall
    /\ disturbed' = FALSE
    /\ UNCHANGED << run, disturbed_calls, disk, listing, file_list, downloads,
                    ret, exit_code, interrupted_at, prev_list, prev_ret,
                    caller >>

\* lines 158-172 and 177-178: the summary, the return value and sys.exit.
Summary ==
    /\ pc = "loop"
    /\ idx > Len(file_list)
    /\ ret' = Bool(Success(failed_files))
    /\ exit_code' = ExitCode(Success(failed_files))
    /\ pc' = "exited"
    /\ UNCHANGED << run, net, disk, listing, file_list, idx, success_count,
                    failed_files, outcome, downloads, interrupted_at,
                    prev_list, prev_ret, caller, call, initial_pos,
                    resume_header, attempt,
                    response, total_size, mode, remaining, slept, dl_ret,
                    reqs, pos0, tried, file0, nolen >>

\* Where the process blocks: the listing request, the GETs, the stream and
\* the backoff sleep.
Blocking == {"start", "request", "refetch", "stream", "sleeping"}

\* The statements of the try block of download_file (lines 75-104) at which
\* the process blocks.
TryPoints == {"request", "refetch", "stream"}

\* Mutant: the handler of line 106 is a bare except.
FetcherCatches_bare(e) == TRUE

\* line 106: except Exception catches what derives from Exception;
\* KeyboardInterrupt derives from BaseException.
FetcherCatches(e) == e = "Exception"

\* lines 179-181: KeyboardInterrupt is no Exception, so neither line 51 nor
\* line 106 catches it; it reaches __main__.
Interrupt ==
    /\ pc \in Blocking
    /\ Disturb
    /\ interrupted_at' = pc
    /\ IF pc \in TryPoints /\ FetcherCatches("KeyboardInterrupt")
       THEN /\ pc' = "except"
            /\ UNCHANGED exit_code
       ELSE /\ exit_code' = 1
            /\ pc' = "exited"
    /\ UNCHANGED << run, disk, listing, file_list, idx, success_count,
                    failed_files, outcome, downloads, ret, prev_list, prev_ret,
                    caller, call, initial_pos, resume_header, attempt,
                    response, total_size, mode, remaining, slept, dl_ret,
                    reqs, pos0, tried, file0, nolen >>

\* The script is invoked again; only ./models outlives the process.
Rerun ==
    /\ pc = "exited"
    /\ run < MaxRuns
    /\ run' = run + 1
    /\ prev_list' = file_list
    /\ prev_ret' = ret
    /\ pc' = "start"
    /\ listing' = NoListing
    /\ file_list' = << >>
    /\ idx' = 1
    /\ success_count' = 0
    /\ failed_files' = << >>
    /\ outcome' = << >>
    /\ downloads' = 0
    /\ ret' = "none"
    /\ exit_code' = -1
    /\ interrupted_at' = "none"
    /\ ResetCall
    /\ disturbed' = FALSE
    /\ UNCHANGED << disturbed_calls, disk, caller >>

\* download_models calls download_file for a missing destination only (line
\* 146): no Range header is sent and initial_pos is 0, so line 80 never holds
\* and the fallback GET is not among the steps of a run (NoFallbackInRun).
Next ==
    \/ GetFileList
    \/ LoopSkip
    \/ LoopDownload
    \/ DownloadFile
    \/ DownloadReturned
    \/ Summary
    \/ Interrupt
    \/ Rerun

Spec == Init /\ [][Next]_vars

\* In a run of the script no attempt reaches line 81.
NoFallbackInRun == pc # "refetch" /\ resume_header = NoRange /\ initial_pos = 0

ListNext == ListerReturns

ListSpec == Init /\ [][ListNext]_vars

\* ================================================================ claims
\* The destination as download_file found it: N chunks, a proper prefix of
\* the remote content.
ResumableStart ==
    /\ disk0.exists
    /\ StSize(disk0) > 0
    /\ StSize(disk0) < SizeOf(dest)
    /\ IsPrefix(disk0.data, Content(dest))

\* C1 (FetchSpec): resume correctness, stated for the calls that report
\* success.  A download_file call that finds N > 0 chunks of the remote
\* content on disk, the remote total being T > N, and returns True on a
\* response declaring its length, leaves exactly T chunks on disk, the first
\* N of them those of a fresh download.
C1_ResumeCorrect ==
    (pc = "returned" /\ dl_ret = "true" /\ ResumableStart /\ response.cl > 0)
        => /\ StSize(disk[dest]) = SizeOf(dest)
           /\ SubSeq(disk[dest].data, 1, StSize(disk0)) = disk0.data

\* The offset of the Range header of the next GET, 0 when none is sent.
RangeOffset == IF resume_header = NoRange THEN 0 ELSE resume_header

\* C2 (as stated; FetchSpec): at the start of every attempt, the offset sent
\* in the Range header and initial_pos both equal the size of the destination
\* on disk at that moment.
C2_RetryFromCurrentSize ==
    pc = "request"
        => /\ initial_pos = StSize(disk[dest])
           /\ RangeOffset = StSize(disk[dest])

\* The current attempt sent a Range header, was answered 200 or 416, and has
\* opened the destination.
IgnoredRange ==
    /\ pc = "stream"
    /\ reqs[1].range # NoRange
    /\ reqs[1].status \in {200, 416}

\* The destination holds the chunks of the body iterated so far and nothing
\* else.
WrittenFromZero ==
    /\ mode = "wb"
    /\ disk[dest].data \o remaining = response.body

C7_Backoff ==
    /\ \A i \in DOMAIN slept :
          slept[i] = IF i = 1 THEN 1 ELSE 2 * slept[i - 1]
    /\ (pc = "returned" /\ dl_ret = "false")
          => /\ Len(slept) = IF max_retries > 0 THEN max_retries - 1 ELSE 0
             /\ max_retries = 3 => slept = << 1, 2 >>

\* C7 witness: three attempts failed and the call returned False.
C7_Witness ==
    /\ pc = "returned"
    /\ dl_ret = "false"
    /\ max_retries = 3
    /\ attempt = 2
    /\ slept = << 1, 2 >>

\* get_file_list has returned in this run.
Listed == listing # NoListing

\* Every entry of file_list has been resolved, none by a failure.
AllResolved ==
    /\ Listed
    /\ Len(outcome) = Len(file_list)
    /\ \A i \in DOMAIN outcome : outcome[i] \in {"present", "fetched"}

SomeFailed == \E i \in DOMAIN outcome : outcome[i] = "failed"

\* C4 (as stated; Spec): in a run that follows a run with a failed file, a
\* file whose size on disk is smaller than the remote total is not counted as
\* present.
C4_PartialNotPresent ==
    (run > 1 /\ prev_ret = "false")
        => \A i \in DOMAIN outcome :
              outcome[i] = "present"
                  => StSize(disk[file_list[i]]) >= SizeOf(file_list[i])

\* A later run has obtained the file list of the run before it.
SameListAgain == run > 1 /\ Listed /\ file_list = prev_list

\* No file is downloaded in this run, and the run, once over, has counted
\* every file as present.
NothingDownloaded ==
    /\ downloads = 0
    /\ \A i \in DOMAIN outcome : outcome[i] = "present"
    /\ pc \notin {"entry", "attempt", "request", "refetch", "stream",
                  "except", "sleeping", "returned"}
    /\ (pc = "exited" /\ ret # "none")
          => (ret = "true" /\ success_count = Len(file_list))

\* C5 (as stated; Spec): after any run of download_models that returned, a
\* second run with the same file list performs no download.
C5_IdempotentAlways == (SameListAgain /\ prev_ret # "none") => NothingDownloaded

\* C5 (amended; Spec): after a run of download_models that returned True, a
\* second run with the same file list performs no download: every listed
\* file is found present and counted as such.
C5_Idempotent == (SameListAgain /\ prev_ret = "true") => NothingDownloaded

\* C5 witness: the second run, after a successful one, has skipped the two
\* files of its list and returned.
C5_Witness ==
    /\ SameListAgain
    /\ prev_ret = "true"
    /\ Len(file_list) >= 2
    /\ pc = "exited"
    /\ ret = "true"
    /\ success_count = Len(file_list)

\* C6 (Spec): the process exits with 0, download_models having returned
\* True, exactly when every file of the list was present or fetched; with a
\* failed file the result is not True and the exit code is 1.
C6_ExitCode ==
    pc = "exited"
        => /\ exit_code \in {0, 1}
           /\ exit_code = 0 <=> AllResolved
           /\ ret = "true" <=> exit_code = 0
           /\ SomeFailed => (exit_code = 1 /\ ret # "true")
           /\ (SomeFailed /\ Len(outcome) = Len(file_list)) => ret = "false"

\* C6 witness: a run with a fetched file and a failed one has exited with 1.
C6_Witness ==
    /\ pc = "exited"
    /\ ret = "false"
    /\ exit_code = 1
    /\ SomeFailed
    /\ \E i \in DOMAIN outcome : outcome[i] = "fetched"

\* C8 (ListSpec): the list get_file_list returns is the default list, or
\* every entry of it is the Path of an entry of the remote listing.
C8_NoMixture ==
    Listed
        => \/ file_list = REQUIRED_FILES
           \/ /\ listing.kind = "list"
              /\ \A i \in DOMAIN file_list :
                    \E j \in DOMAIN listing.data :
                        /\ listing.data[j].kind = "path"
                        /\ listing.data[j].path = file_list[i]

\* C8 witness: a listing with a raising entry after an entry with a Path.
C8_Witness ==
    /\ Listed
    /\ listing.kind = "list"
    /\ Len(listing.data) >= 2
    /\ listing.data[1].kind = "path"
    /\ listing.data[2].kind = "bad"

\* The listing request failed, or its body is not an object whose Data is a
\* list of entries that can be read.
Malformed(reply) ==
    \/ reply.kind \in {"neterr", "status", "nojson", "nodata", "notlist"}
    \/ /\ reply.kind = "list"
       /\ \E j \in DOMAIN reply.data : reply.data[j].kind = "bad"

C10_FailureDoesNotAbort ==
    /\ \A i \in DOMAIN outcome :
          outcome[i] = "failed" => file_list[i] \in Range(failed_files)
    /\ Len(outcome) <= Len(file_list)
    /\ pc = "loop" => idx = Len(outcome) + 1
    /\ (pc = "exited" /\ ret # "none") => Len(outcome) = Len(file_list)

\* C10 witness: the first file failed, the files after it were resolved and
\* the run returned.
C10_Witness ==
    /\ pc = "exited"
    /\ ret = "false"
    /\ Len(file_list) >= 2
    /\ outcome[1] = "failed"
    /\ Len(outcome) = Len(file_list)
    /\ failed_files = << file_list[1] >>

\* A download_file call is active.
InCall ==
    pc \in {"entry", "attempt", "request", "refetch", "stream", "except",
            "sleeping", "returned"}

\* The entries before position i of file_list, and no other, are resolved.
ResolvedBefore(i) == Len(outcome) = i - 1

\* C11 (Spec): the run is strictly sequential.  The entries of file_list are
\* taken in list order; while a download_file call is active it is the call
\* for entry idx and the entries before idx, and only they, are resolved, so
\* a GET is issued for an entry only after the call for the entry before it
\* has returned, its attempts and sleeps over; and a step that changes a file
\* changes the destination of the active call and no other file.
C11_Sequential ==
    /\ [](/\ pc = "loop" => ResolvedBefore(idx)
          /\ InCall => /\ idx <= Len(file_list)
                       /\ dest = file_list[idx]
                       /\ ResolvedBefore(idx))
    /\ [][/\ (reqs' # reqs /\ reqs' # << >>)
                => (InCall /\ dest' = dest /\ idx' = idx /\ ResolvedBefore(idx))
          /\ \A n \in Names :
                disk'[n] # disk[n]
                    => (n = dest /\ pc \in {"request", "refetch", "stream"})
          /\ Len(outcome') > Len(outcome)
                => (idx' = idx + 1 /\ Len(outcome') = Len(outcome) + 1)]_vars

\* C11 witness: the call for the first entry has returned False after its
\* three attempts and two sleeps, and the body of the second entry is being
\* written.
C11_Witness ==
    /\ pc = "stream"
    /\ idx = 2
    /\ outcome = << "failed" >>
    /\ dest = file_list[2]
    /\ dest # file_list[1]
    /\ Len(reqs) = 1
    /\ StSize(disk[dest]) = 1

\* C12 (Spec): a KeyboardInterrupt raised while the process blocks in the
\* listing request, a GET, the stream or a backoff sleep ends the process at
\* once: the process has exited with code 1, download_models has not
\* returned, and the attempt, the entry and the counters are those of the
\* moment of the interrupt, no attempt and no file having been started after
\* it.
C12_InterruptAborts ==
    /\ [](interrupted_at # "none"
            => /\ pc = "exited"
               /\ exit_code = 1
               /\ ret = "none"
               /\ dl_ret = "none"
               /\ Len(outcome) = idx - 1)
    /\ [][interrupted_at' \notin {"none", interrupted_at}
            => /\ interrupted_at' = pc
               /\ pc' = "exited"
               /\ << attempt', idx', downloads', outcome', reqs', slept' >>
                    = << attempt, idx, downloads, outcome, reqs, slept >>]_vars

\* C12 witness: the interrupt struck during the backoff sleep after a failed
\* attempt, with attempts and files left; the process has exited with 1.
C12_Witness ==
    /\ interrupted_at = "sleeping"
    /\ pc = "exited"
    /\ exit_code = 1
    /\ slept # << >>
    /\ attempt < max_retries - 1
    /\ idx < Len(file_list)

\* C13 (FetchLive): a call of download_file returns, for every max_retries
\* and every sequence of replies and failures.  It starts at most max_retries
\* attempts, each after the failure of the one before it; once an attempt has
\* succeeded the call has returned True and no other attempt is started; and
\* it returns False only when max_retries attempts have been started and have
\* all failed.
C13_BoundedAttempts ==
    /\ [](/\ Len(tried) <= max_retries
          /\ \A i \in 1..(Len(tried) - 1) : tried[i] = "failed"
          /\ (\E i \in DOMAIN tried : tried[i] = "ok")
                => (pc = "returned" /\ dl_ret = "true")
          /\ (pc = "returned" /\ dl_ret = "true")
                => (tried # << >> /\ tried[Len(tried)] = "ok")
          /\ (pc = "returned" /\ dl_ret = "false")
                => /\ Len(tried) = max_retries
                   /\ \A i \in DOMAIN tried : tried[i] = "failed")
    /\ <>(pc = "returned")

\* C13 witness: with max_retries = 3 the second attempt succeeded after a
\* failed one; the call returned True without a third attempt.
C13_Witness ==
    /\ pc = "returned"
    /\ dl_ret = "true"
    /\ max_retries = 3
    /\ tried = << "failed", "ok" >>
    /\ attempt = 1

\* The body of the response has been iterated to its end and the with block
\* is left: the size check of line 101 is next.
StreamComplete == pc = "stream" /\ remaining = << >>

\* C14 (as stated; FetchSpec): when the response carries no content-length
\* (declared length 0), an attempt whose stream completes passes the size
\* check, for a fresh download and for a resumed (206) one alike.
C14_NoLengthPasses ==
    (StreamComplete /\ response.cl = 0)
        => ~SizeMismatch(total_size, StSize(disk[dest]))

\* C15 (as stated; FetchSpec): in every attempt the first GET carries a Range
\* header exactly when initial_pos > 0 at the start of the attempt, and the
\* offset of the header is initial_pos; no Range header is sent for an
\* existing empty destination, nor after initial_pos was reset to 0.
C15_RangeIffResuming ==
    reqs # << >>
        => /\ reqs[1].range # NoRange <=> pos0 > 0
           /\ reqs[1].range # NoRange => reqs[1].range = pos0

\* The GET whose response the current attempt uses.
FinalGet == reqs[Len(reqs)]

\* The current attempt sent a Range header and the server honoured it.
HonouredRange == FinalGet.range # NoRange /\ FinalGet.status = 206

\* C16 (as stated, for the calls that find a non-empty destination;
\* FetchSpec): an attempt opens the destination for append exactly when its
\* ranged request was answered 206, and for truncate-write in every other
\* case.
C16_AppendIffHonoured ==
    (pc = "stream" /\ StSize(disk0) > 0)
        => (mode = "ab" <=> HonouredRange)

\* The final response of the current attempt has a status outside
\* {200, 206} (0 stands for a GET that raised).
Rejected == reqs # << >> /\ FinalGet.status \notin {0, 200, 206}

\* C17 (FetchSpec): an attempt whose final response has a status outside
\* {200, 206} is failed without the destination being opened: from the
\* response to the start of the next attempt the file on disk is the file the
\* attempt found, neither created, truncated nor extended, and of the same
\* length.
C17_RejectedUntouched ==
    Rejected
        => /\ pc \in {"refetch", "except", "sleeping", "attempt", "returned"}
           /\ pc = "returned" => dl_ret = "false"
           /\ disk[dest] = file0
           /\ StSize(disk[dest]) = StSize(file0)

\* C17 witness: a call found one chunk on disk; its ranged GET was answered
\* 416 and the plain GET after it with an error status; the attempt has
\* failed and the chunk is still there.
C17_Witness ==
    /\ Rejected
    /\ pc = "except"
    /\ Len(reqs) = 2
    /\ reqs[1].status = 416
    /\ file0.exists
    /\ StSize(file0) > 0
    /\ disk[dest] = file0

\* C18 (as stated; FetchSpec): when download_file returns True and every 200
\* or 206 of the call declared its content length, the destination is the
\* complete remote file, in size and in content, whatever the call found on
\* disk and whatever replies and failed attempts preceded the successful
\* attempt.
C18_TrueMeansComplete ==
    (pc = "returned" /\ dl_ret = "true" /\ ~nolen)
        => /\ StSize(disk[dest]) = SizeOf(dest)
           /\ disk[dest].data = Content(dest)

\* The names of list whose entry has the outcome "failed" in out, in order.
RECURSIVE FailedNames(_, _)
FailedNames(list, out) ==
    IF out = << >> THEN << >>
    ELSE (IF Head(out) = "failed" THEN << Head(list) >> ELSE << >>)
            \o FailedNames(Tail(list), Tail(out))

\* The for loop of download_models has taken its last entry.
LoopFinished ==
    \/ pc = "loop" /\ idx > Len(file_list)
    \/ pc = "exited" /\ ret # "none"

\* C19 (Spec): the entries resolved so far are counted once each, as a
\* success or as a failure, and failed_files holds, in list order, the names
\* of the entries whose download_file call returned False and no other; when
\* the loop finishes, success_count + len(failed_files) = len(file_list).
C19_CountedOnce ==
    /\ success_count + Len(failed_files) = Len(outcome)
    /\ failed_files = FailedNames(file_list, outcome)
    /\ success_count
          = Cardinality({i \in DOMAIN outcome : outcome[i] # "failed"})
    /\ LoopFinished
          => /\ Len(outcome) = Len(file_list)
             /\ success_count + Len(failed_files) = Len(file_list)

\* C19 witness: a name is listed twice; its download_file call returned
\* False and left a file behind, so the second entry was skipped as present:
\* one failure and one success are counted for the two entries.
C19_Witness ==
    /\ pc = "loop"
    /\ idx > Len(file_list)
    /\ outcome = << "failed", "present" >>
    /\ file_list[1] = file_list[2]
    /\ success_count = 1
    /\ failed_files = << file_list[1] >>

====
